---- MODULE Spec2Model ----
(***************************************************************************)
(* Container.Top and Container.execPS of libpod/container_top_linux.go.    *)
(*                                                                         *)
(* One behaviour is one call of Top on one container handle.  The caller's *)
(* goroutine runs Top and execPS; execPS starts two more goroutines (the   *)
(* pipe reader and the namespace-join-and-exec task) and the task starts   *)
(* the child process.  Text is modelled as a sequence of chunks: text that *)
(* the user or the child supplies is one chunk per character, text that    *)
(* the program formats ("/proc/self/fd/%d", "ps", "--argv0") is one chunk  *)
(* per formatted piece.                                                    *)
(***************************************************************************)
EXTENDS Integers, Sequences, FiniteSets, TLC

(***************************************************************************)
(* Bounds of the model.                                                    *)
(***************************************************************************)
MaxChars == 4
MaxDescs == 2
MaxOut == 2
MaxLddLines == 2
PipeCap == 1
NumThreads == 2

(***************************************************************************)
(* Text helpers: strings.Split, strings.Join, strings.Contains.            *)
(***************************************************************************)
Alphabet == {"a", ",", " ", "'"}

RECURSIVE StringsUpTo(_)
StringsUpTo(n) ==
    IF n = 0 THEN {<<>>}
    ELSE LET shorter == StringsUpTo(n - 1)
         IN  shorter \cup {Append(s, c) : s \in {t \in shorter : Len(t) = n - 1}, c \in Alphabet}

\* strings.Split(s, sep) for a one-character separator: the pieces between
\* separators, empty pieces included; acc is the piece being read.
RECURSIVE SplitFrom(_, _, _, _)
SplitFrom(s, sep, i, acc) ==
    IF i > Len(s) THEN <<acc>>
    ELSE IF s[i] = sep THEN <<acc>> \o SplitFrom(s, sep, i + 1, <<>>)
    ELSE SplitFrom(s, sep, i + 1, Append(acc, s[i]))

StringsSplit(s, sep) == SplitFrom(s, sep, 1, <<>>)

\* strings.Join(elems, sep)
RECURSIVE StringsJoin(_, _)
StringsJoin(elems, sep) ==
    IF Len(elems) = 0 THEN <<>>
    ELSE IF Len(elems) = 1 THEN elems[1]
    ELSE elems[1] \o sep \o StringsJoin(Tail(elems), sep)

\* strings.Contains(s, substr)
StringsContains(s, substr) ==
    \E i \in 0..Len(s) :
        /\ i + Len(substr) <= Len(s)
        /\ \A k \in 1..Len(substr) : s[i + k] = substr[k]

\* The "if s != "" { append }" loops of Top.
NonEmpty(toks) == SelectSeq(toks, LAMBDA t : t # <<>>)

(***************************************************************************)
(* github.com/google/shlex as called by Top: Split runs the tokenizer's    *)
(* state machine over the runes of the descriptor.                         *)
(***************************************************************************)
RuneClass(c) ==
    IF c \in {" ", "\t", "\r", "\n"} THEN "space"
    ELSE IF c = "\"" THEN "escapingQuote"
    ELSE IF c = "'" THEN "nonEscapingQuote"
    ELSE IF c = "\\" THEN "escape"
    ELSE IF c = "#" THEN "comment"
    ELSE "char"

ErrEOFEscape == <<"EOF found after escape character">>
ErrEOFQuote == <<"EOF found when expecting closing quote">>

\* The scan from rune i in tokenizer state st with the token value val read so
\* far; toks are the word tokens already returned.  The result is what Split
\* returns: the words and the error (<<>> for nil).
RECURSIVE ShlexScan(_, _, _, _, _)
ShlexScan(s, i, st, val, toks) ==
    IF i > Len(s) THEN
        CASE st = "start" -> [words |-> toks, err |-> <<>>]
          [] st = "inWord" -> [words |-> Append(toks, val), err |-> <<>>]
          [] st \in {"escaping", "escapingQuoted"} -> [words |-> toks, err |-> ErrEOFEscape]
          [] st \in {"quotingEscaping", "quoting"} -> [words |-> toks, err |-> ErrEOFQuote]
          [] st = "comment" -> [words |-> toks, err |-> <<>>]
    ELSE LET c == s[i]
             cls == RuneClass(c)
         IN  CASE st = "start" ->
                    (CASE cls = "space" -> ShlexScan(s, i + 1, "start", <<>>, toks)
                       [] cls = "escapingQuote" -> ShlexScan(s, i + 1, "quotingEscaping", <<>>, toks)
                       [] cls = "nonEscapingQuote" -> ShlexScan(s, i + 1, "quoting", <<>>, toks)
                       [] cls = "escape" -> ShlexScan(s, i + 1, "escaping", <<>>, toks)
                       [] cls = "comment" -> ShlexScan(s, i + 1, "comment", <<>>, toks)
                       [] OTHER -> ShlexScan(s, i + 1, "inWord", <<c>>, toks))
               [] st = "inWord" ->
                    (CASE cls = "space" -> ShlexScan(s, i + 1, "start", <<>>, Append(toks, val))
                       [] cls = "escapingQuote" -> ShlexScan(s, i + 1, "quotingEscaping", val, toks)
                       [] cls = "nonEscapingQuote" -> ShlexScan(s, i + 1, "quoting", val, toks)
                       [] cls = "escape" -> ShlexScan(s, i + 1, "escaping", val, toks)
                       [] OTHER -> ShlexScan(s, i + 1, "inWord", Append(val, c), toks))
               [] st = "escaping" -> ShlexScan(s, i + 1, "inWord", Append(val, c), toks)
               [] st = "escapingQuoted" -> ShlexScan(s, i + 1, "quotingEscaping", Append(val, c), toks)
               [] st = "quotingEscaping" ->
                    (CASE cls = "escapingQuote" -> ShlexScan(s, i + 1, "inWord", val, toks)
                       [] cls = "escape" -> ShlexScan(s, i + 1, "escapingQuoted", val, toks)
                       [] OTHER -> ShlexScan(s, i + 1, "quotingEscaping", Append(val, c), toks))
               [] st = "quoting" ->
                    (CASE cls = "nonEscapingQuote" -> ShlexScan(s, i + 1, "inWord", val, toks)
                       [] OTHER -> ShlexScan(s, i + 1, "quoting", Append(val, c), toks))
               [] st = "comment" ->
                    (IF c = "\n" THEN ShlexScan(s, i + 1, "start", <<>>, toks)
                     ELSE ShlexScan(s, i + 1, "comment", <<>>, toks))

ShlexSplit(s) == ShlexScan(s, 1, "start", <<>>, <<>>)


(***************************************************************************)
(* Errors are wrap chains: fmt.Errorf("...: %w", err) puts its message in  *)
(* front of the chain of err; nil is the empty chain.                      *)
(***************************************************************************)
NoErr == <<>>
NilRows == <<>>
Wrap(msg, err) == <<msg>> \o err
ErrorsIs(err, target) == \E i \in 1..Len(err) : err[i] = target

ErrNoCgroups == "define.ErrNoCgroups"
ErrUnknownDescriptor == "psgo.ErrUnknownDescriptor"
ContainerStateRunning == "running"
ContainerStates == {"running", "paused", "exited"}

(***************************************************************************)
(* What the environment can answer.                                        *)
(***************************************************************************)
\* c.State(): a lookup error, or the state of the container.
StateErrs == {<<"no such container">>}

\* psgo.JoinNamespaceAndProcessInfoWithOptions: rows of columns, or an error.
PsgoRow1 == << <<"1">>, <<"a">> >>
PsgoRow2 == << <<"2">>, <<"b">> >>
PsgoOutputs == {<<>>, <<PsgoRow1>>, <<PsgoRow1, PsgoRow2>>, <<PsgoRow2, PsgoRow1>>}
PsgoErrs == {<<"unknown descriptor a", ErrUnknownDescriptor>>, <<"operation not permitted">>}

\* The lines of "ldd <ps>" as strings.Fields sees them: the line of a shared
\* library (four fields, the third its path), the line of the dynamic linker
\* (two fields, the first its absolute path), and a line of neither shape.
\* The library of line i is named after i, so that libraries can be told apart.
LibFile(i) == <<"/", "lib", ToString(i)>>
LinkerFile == <<"/", "ld.so">>
LibLine(i) == << <<"lib">>, <<"=>">>, LibFile(i), <<"(0x1)">> >>
LinkerLine == <<LinkerFile, <<"(0x2)">> >>
VdsoLine == << <<"vdso">>, <<"(0x3)">> >>
LddLineAt(i) == {LibLine(i), LinkerLine, VdsoLine}

RECURSIVE LddOutputsOfLen(_)
LddOutputsOfLen(n) ==
    IF n = 0 THEN {<<>>}
    ELSE {Append(out, line) : out \in LddOutputsOfLen(n - 1), line \in LddLineAt(n)}

LddOutputs == UNION {LddOutputsOfLen(n) : n \in 0..MaxLddLines}

\* What "ldd" can fail with: it is not there, or it exits with an error.
LddErrs == {<<"exec: ldd: executable file not found in $PATH">>, <<"exit status 1">>}

\* What cmd.Output() of "ldd <ps>" can return: an error, or the lines printed.
LddAnswers == {[out |-> <<>>, err |-> e] : e \in LddErrs}
              \cup {[out |-> out, err |-> NoErr] : out \in LddOutputs}

\* path.IsAbs
IsAbs(p) == Len(p) > 0 /\ p[1] = "/"

\* What the child can print on its standard output as line i: the row of
\* some process (rows differ from line to line), or the row of ps itself,
\* which shows the arguments ps was started with.
RowNames == <<"a", "b", "c">>
PlainLine(i) == <<RowNames[((i - 1) % Len(RowNames)) + 1]>>
EchoLine(descs) == <<"p", "s", " ">> \o StringsJoin(descs, <<" ">>)
ChildLines(descs, i) == {PlainLine(i), EchoLine(descs)}
ChildStderr == {<<>>, <<"ps: bad option">>}
ExitCodes == {0, 1}

Threads == 1..NumThreads
HostNs == [mnt |-> "host", pid |-> "host"]

\* fmt.Sprintf("/proc/self/fd/%d", fd)
FdPath(fd) == <<"/proc/self/fd/", ToString(fd)>>

VARIABLES
    noCgroups, conState, descriptors,        \* the container handle and the argument of Top
    pc,                                      \* where the caller's goroutine is
    shIdx, psDescriptors,                    \* the shlex loop of Top
    psgoOut, psgoRet,                        \* what psgo and GetContainerPidInformation returned
    topRet,                                  \* what Top returned
    stateLookups,                            \* the errors c.State() returned, one per call
    psgoCalls, execCalls,                    \* the argument lists of the calls of psgo and of execPS
    fds, deferStack,                         \* the descriptor table; execPS's deferred closes
    stdout, pipeBuf, reader,                 \* the captured lines, the pipe, the reader goroutine
    args, lddOut, lddIdx, preload, linkerPath,
    execRet,                                 \* the operands of execPS's return statement
    nsPc, nsErr, nsThread, nsFDs, nsLog,     \* the namespace-join-and-exec goroutine
    errChan,
    threadState, threadNs, callerThread,     \* the OS threads of the Go runtime
    child, childWritten, childExit, launches, lddCalls,
    hostLdd,                                 \* what "ldd <ps>" answers on this host
    lddErr,                                  \* the error "ldd" returned
    openFailed,                              \* the paths of ldd's lines unix.Open refused
    runCalls                                 \* the commands cmd.Run was called with

topVars == <<noCgroups, conState, descriptors, shIdx, psDescriptors, psgoOut, psgoRet, topRet,
             stateLookups, psgoCalls, execCalls>>
execVars == <<fds, deferStack, args, lddOut, lddIdx, preload, linkerPath, execRet>>
readerVars == <<stdout, pipeBuf, reader>>
nsVars == <<nsPc, nsErr, nsThread, nsFDs, nsLog, errChan>>
threadVars == <<threadState, threadNs, callerThread>>
childVars == <<child, childWritten, childExit, launches, lddCalls, hostLdd, lddErr, openFailed, runCalls>>
vars == <<pc, topVars, execVars, readerVars, nsVars, threadVars, childVars>>

(***************************************************************************)
(* The inputs of one call.                                                 *)
(***************************************************************************)
\* Every list of at most k descriptors with at most n characters in all.
RECURSIVE InputsUpTo(_, _)
InputsUpTo(k, n) ==
    IF k = 0 THEN {<<>>}
    ELSE {<<>>} \cup UNION {{<<s>> \o rest : rest \in InputsUpTo(k - 1, n - Len(s))} :
                            s \in StringsUpTo(n)}

\* The calls followed through execPS: comma-separated, space-separated,
\* shell-quoted, several descriptors, an unterminated quote, none.
SampleInputs ==
    { <<>>,
      << <<"a">> >>,
      << <<"a", ",", "b">> >>,
      << <<"'", "a", " ", "b", "'">> >>,
      << <<"a">>, <<"b", " ", "'", "c", " ", "d", "'">> >>,
      << <<"a">>, <<"'", "b">> >> }

InitWith(inputs, answers) ==
    /\ noCgroups \in BOOLEAN
    /\ hostLdd \in answers
    /\ conState \in ContainerStates
    /\ descriptors \in inputs
    /\ pc = "Top"
    /\ shIdx = 1
    /\ psDescriptors = <<>>
    /\ psgoOut = <<>>
    /\ psgoRet = [rows |-> NilRows, err |-> NoErr]
    /\ topRet = [rows |-> NilRows, err |-> NoErr]
    /\ stateLookups = <<>>
    /\ psgoCalls = <<>>
    /\ execCalls = <<>>
    /\ fds = <<>>
    /\ deferStack = <<>>
    /\ stdout = <<>>
    /\ pipeBuf = <<>>
    /\ reader = "none"
    /\ args = <<>>
    /\ lddOut = <<>>
    /\ lddIdx = 1
    /\ preload = <<>>
    /\ linkerPath = <<>>
    /\ execRet = [lines |-> NilRows, err |-> NoErr]
    /\ nsPc = "none"
    /\ nsErr = NoErr
    /\ nsThread = 0
    /\ nsFDs = <<>>
    /\ nsLog = <<>>
    /\ errChan = [state |-> "none", sends |-> 0]
    /\ threadState = [t \in Threads |-> "pool"]
    /\ threadNs = [t \in Threads |-> HostNs]
    /\ callerThread = 1
    /\ child = "none"
    /\ childWritten = <<>>
    /\ childExit = [code |-> 0, stderr |-> <<>>]
    /\ launches = <<>>
    /\ lddCalls = <<>>
    /\ lddErr = NoErr
    /\ openFailed = {}
    /\ runCalls = <<>>

\* The sample hosts: ldd fails, ldd prints nothing, ldd prints one library
\* and the linker.
SampleLddAnswers ==
    { [out |-> <<>>, err |-> <<"exit status 1">>],
      [out |-> <<>>, err |-> NoErr],
      [out |-> <<LibLine(1), LinkerLine>>, err |-> NoErr] }

\* The call followed on every host: two descriptors, the second one quoted.
LinkageInput == << <<"a">>, <<"b", " ", "'", "c", " ", "d", "'">> >>

\* Every sample call on the sample hosts, and one call on every host: what
\* ldd prints does not depend on the descriptors.
Init ==
    \/ InitWith(SampleInputs, SampleLddAnswers)
    \/ InitWith({LinkageInput}, LddAnswers)
\* The dispatcher never runs ldd: one host stands for all.
InitDispatch ==
    InitWith(InputsUpTo(MaxDescs, MaxChars) \cup SampleInputs,
             {[out |-> <<>>, err |-> <<"exit status 1">>]})
\* One call that reaches execPS whenever the provider reports UnknownDescriptor.
InitLive == InitWith({ << <<"a">> >> }, SampleLddAnswers)

(***************************************************************************)
(* Container.Top                                                           *)
(***************************************************************************)
\* return rows, err
TopReturn(rows, err) ==
    /\ topRet' = [rows |-> rows, err |-> err]
    /\ pc' = "Done"

\* The NoCgroups test left out: Top goes on whatever the flag says.
NoCgroupsCheckLeftOut(flag) == pc' = "State" /\ UNCHANGED topRet

\* if c.config.NoCgroups { return nil, ...%w ErrNoCgroups }
NoCgroupsCheck(flag) ==
    IF flag
    THEN TopReturn(NilRows, Wrap("cannot run top on container as it did not create a cgroup", <<ErrNoCgroups>>))
    ELSE pc' = "State" /\ UNCHANGED topRet

TopNoCgroups ==
    /\ pc = "Top"
    /\ NoCgroupsCheck(noCgroups)
    /\ UNCHANGED <<noCgroups, conState, descriptors, shIdx, psDescriptors, psgoOut, psgoRet,
                   stateLookups, psgoCalls, execCalls>>
    /\ UNCHANGED <<execVars, readerVars, nsVars, threadVars, childVars>>

ErrNotRunning == <<"top can only be used on running containers">>

\* The state check letting a paused container through.
StateCheckPausedToo(err, conStat) ==
    IF err # NoErr THEN TopReturn(NilRows, Wrap("unable to look up state", err))
    ELSE IF conStat \notin {ContainerStateRunning, "paused"}
    THEN TopReturn(NilRows, ErrNotRunning)
    ELSE pc' = "Psgo" /\ UNCHANGED topRet

\* conStat, err := c.State(); the two checks that follow it.
StateCheck(err, conStat) ==
    IF err # NoErr THEN TopReturn(NilRows, Wrap("unable to look up state", err))
    ELSE IF conStat # ContainerStateRunning
    THEN TopReturn(NilRows, ErrNotRunning)
    ELSE pc' = "Psgo" /\ UNCHANGED topRet

TopState ==
    /\ pc = "State"
    /\ \E err \in StateErrs \cup {NoErr} :
          /\ stateLookups' = Append(stateLookups, err)
          /\ StateCheck(err, conState)
    /\ UNCHANGED <<noCgroups, conState, descriptors, shIdx, psDescriptors, psgoOut, psgoRet,
                   psgoCalls, execCalls>>
    /\ UNCHANGED <<execVars, readerVars, nsVars, threadVars, childVars>>

\* The loop without its test `s != ""`: the empty pieces stay.
RECURSIVE PsgoDescriptorsKeepEmpty(_)
PsgoDescriptorsKeepEmpty(descs) ==
    IF Len(descs) = 0 THEN <<>>
    ELSE StringsSplit(Head(descs), ",") \o PsgoDescriptorsKeepEmpty(Tail(descs))

\* The loop building psgoDescriptors: every descriptor split on commas, the
\* empty pieces dropped.
RECURSIVE PsgoDescriptors(_)
PsgoDescriptors(descs) ==
    IF Len(descs) = 0 THEN <<>>
    ELSE NonEmpty(StringsSplit(Head(descs), ",")) \o PsgoDescriptors(Tail(descs))

\* GetContainerPidInformation: the rows of psgo, each joined by tabs.
GetContainerPidInformation(psgoOutput, err) ==
    IF err # NoErr THEN [rows |-> NilRows, err |-> err]
    ELSE [rows |-> [i \in 1..Len(psgoOutput) |-> StringsJoin(psgoOutput[i], <<"\t">>)],
          err |-> NoErr]

\* The filter dropping only the lines equal to the joined descriptors.
RECURSIVE FilterOutputEqual(_, _)
FilterOutputEqual(output, cmd) ==
    IF Len(output) = 0 THEN <<>>
    ELSE IF Head(output) # cmd
    THEN <<Head(output)>> \o FilterOutputEqual(Tail(output), cmd)
    ELSE FilterOutputEqual(Tail(output), cmd)

\* The loop filtering the line of ps itself out of the output.
RECURSIVE FilterOutput(_, _)
FilterOutput(output, cmd) ==
    IF Len(output) = 0 THEN <<>>
    ELSE IF ~StringsContains(Head(output), cmd)
    THEN <<Head(output)>> \o FilterOutput(Tail(output), cmd)
    ELSE FilterOutput(Tail(output), cmd)

\* The dispatch falling back to ps(1) on any error of the provider.
PsgoCheckAnyError(ret) ==
    IF ret.err = NoErr THEN TopReturn(ret.rows, NoErr)
    ELSE pc' = "Shlex" /\ UNCHANGED topRet

\* The dispatch passing the provider's rows through the filter of the fallback.
PsgoCheckFiltered(ret) ==
    IF ret.err = NoErr
    THEN TopReturn(FilterOutput(ret.rows, StringsJoin(descriptors, <<" ">>)), NoErr)
    ELSE IF ~ErrorsIs(ret.err, ErrUnknownDescriptor) THEN TopReturn(NilRows, ret.err)
    ELSE pc' = "Shlex" /\ UNCHANGED topRet

\* What Top does with the provider's answer.
PsgoCheck(ret) ==
    IF ret.err = NoErr THEN TopReturn(ret.rows, NoErr)
    ELSE IF ~ErrorsIs(ret.err, ErrUnknownDescriptor) THEN TopReturn(NilRows, ret.err)
    ELSE pc' = "Shlex" /\ UNCHANGED topRet

\* What psgo can answer: rows and no error, or no rows and an error.
PsgoAnswers == {[out |-> out, err |-> NoErr] : out \in PsgoOutputs}
               \cup {[out |-> <<>>, err |-> e] : e \in PsgoErrs}

TopPsgo ==
    /\ pc = "Psgo"
    /\ psgoCalls' = Append(psgoCalls, PsgoDescriptors(descriptors))
    /\ \E ans \in PsgoAnswers :
          /\ psgoOut' = ans.out
          /\ psgoRet' = GetContainerPidInformation(ans.out, ans.err)
          /\ PsgoCheck(GetContainerPidInformation(ans.out, ans.err))
    /\ UNCHANGED <<noCgroups, conState, descriptors, shIdx, psDescriptors,
                   stateLookups, execCalls>>
    /\ UNCHANGED <<execVars, readerVars, nsVars, threadVars, childVars>>

\* The turn that leaves out a descriptor shlex cannot split and goes on.
ShlexTurnSkipBad(d) ==
    LET sh == ShlexSplit(d)
    IN  /\ psDescriptors' = IF sh.err # NoErr THEN psDescriptors
                            ELSE psDescriptors \o NonEmpty(sh.words)
        /\ shIdx' = shIdx + 1
        /\ UNCHANGED <<pc, topRet>>

\* One turn of the loop building psDescriptors.
ShlexTurn(d) ==
    LET sh == ShlexSplit(d)
    IN  IF sh.err # NoErr
        THEN /\ TopReturn(NilRows, Wrap("parsing ps args", sh.err))
             /\ UNCHANGED <<shIdx, psDescriptors>>
        ELSE /\ psDescriptors' = psDescriptors \o NonEmpty(sh.words)
             /\ shIdx' = shIdx + 1
             /\ UNCHANGED <<pc, topRet>>

TopShlex ==
    /\ pc = "Shlex"
    /\ shIdx <= Len(descriptors)
    /\ ShlexTurn(descriptors[shIdx])
    /\ UNCHANGED <<noCgroups, conState, descriptors, psgoOut, psgoRet, stateLookups, psgoCalls, execCalls>>
    /\ UNCHANGED <<execVars, readerVars, nsVars, threadVars, childVars>>

\* execPS given the comma-split descriptors of the structured path.
ExecPSArgsCommaSplit == PsgoDescriptors(descriptors)

\* The argument list Top passes to execPS.
ExecPSArgs == psDescriptors

\* output, err = c.execPS(psDescriptors)
TopCallExecPS ==
    /\ pc = "Shlex"
    /\ shIdx > Len(descriptors)
    /\ execCalls' = Append(execCalls, ExecPSArgs)
    /\ pc' = "ExecPipe"
    /\ UNCHANGED <<noCgroups, conState, descriptors, shIdx, psDescriptors, psgoOut, psgoRet, topRet,
                   stateLookups, psgoCalls>>
    /\ UNCHANGED <<execVars, readerVars, nsVars, threadVars, childVars>>


\* Top handing back the lines captured so far together with the error.
ExecPSCheckPartial(ret) ==
    IF ret.err # NoErr
    THEN TopReturn(ret.lines, Wrap("executing ps(1) in the container", ret.err))
    ELSE TopReturn(FilterOutput(ret.lines, StringsJoin(descriptors, <<" ">>)), NoErr)

\* Top asking the provider once more when execPS failed.
ExecPSCheckRetry(ret) ==
    IF ret.err # NoErr
    THEN pc' = "Psgo" /\ UNCHANGED topRet
    ELSE TopReturn(FilterOutput(ret.lines, StringsJoin(descriptors, <<" ">>)), NoErr)

\* What Top does with what execPS returned.
ExecPSCheck(ret) ==
    IF ret.err # NoErr
    THEN TopReturn(NilRows, Wrap("executing ps(1) in the container", ret.err))
    ELSE TopReturn(FilterOutput(ret.lines, StringsJoin(descriptors, <<" ">>)), NoErr)

\* execPS has run its deferred calls and Top goes on.
TopExecPSReturned ==
    /\ pc = "ExecDefer"
    /\ deferStack = <<>>
    /\ ExecPSCheck(execRet)
    /\ UNCHANGED <<noCgroups, conState, descriptors, shIdx, psDescriptors, psgoOut, psgoRet,
                   stateLookups, psgoCalls, execCalls>>
    /\ UNCHANGED <<execVars, readerVars, nsVars, threadVars, childVars>>

(***************************************************************************)
(* Container.execPS, the caller's goroutine                                *)
(***************************************************************************)
Last(seq) == seq[Len(seq)]
IsOpen(kind) == \E i \in DOMAIN fds : fds[i].kind = kind /\ fds[i].open
OpenedFd(kind, path) == [kind |-> kind, path |-> path, open |-> TRUE]
CloseFd(table, i) == [table EXCEPT ![i].open = FALSE]

\* return lines, err: the operands are evaluated, then the deferred calls run.
ExecReturn(lines, err) ==
    /\ execRet' = [lines |-> lines, err |-> err]
    /\ pc' = "ExecDefer"

\* execPS making the pipe without deferring the close of its ends.
ExecPipeNoDefer ==
    /\ pc = "ExecPipe"
    /\ \/ /\ ExecReturn(NilRows, <<"pipe: too many open files">>)
          /\ UNCHANGED <<fds, readerVars>>
       \/ /\ fds' = fds \o <<OpenedFd("rPipe", <<>>), OpenedFd("wPipe", <<>>)>>
          /\ stdout' = <<>>
          /\ reader' = "running"
          /\ pc' = "LookPath"
          /\ UNCHANGED <<execRet, pipeBuf>>
    /\ UNCHANGED <<deferStack, args, lddOut, lddIdx, preload, linkerPath>>
    /\ UNCHANGED <<topVars, nsVars, threadVars, childVars>>

\* rPipe, wPipe, err := os.Pipe(); the two deferred closes; go func() { scan }()
ExecPipe ==
    /\ pc = "ExecPipe"
    /\ \/ /\ ExecReturn(NilRows, <<"pipe: too many open files">>)
          /\ UNCHANGED <<fds, deferStack, readerVars>>
       \/ /\ fds' = fds \o <<OpenedFd("rPipe", <<>>), OpenedFd("wPipe", <<>>)>>
          /\ deferStack' = deferStack \o <<Len(fds) + 2, Len(fds) + 1>>
          /\ stdout' = <<>>
          /\ reader' = "running"
          /\ pc' = "LookPath"
          /\ UNCHANGED <<execRet, pipeBuf>>
    /\ UNCHANGED <<args, lddOut, lddIdx, preload, linkerPath>>
    /\ UNCHANGED <<topVars, nsVars, threadVars, childVars>>

\* psPath, err := exec.LookPath("ps")
ExecLookPath ==
    /\ pc = "LookPath"
    /\ \/ ExecReturn(NilRows, <<"exec: ps: executable file not found in $PATH">>)
       \/ pc' = "OpenPs" /\ UNCHANGED execRet
    /\ UNCHANGED <<fds, deferStack, args, lddOut, lddIdx, preload, linkerPath>>
    /\ UNCHANGED <<topVars, readerVars, nsVars, threadVars, childVars>>

\* psFD, err := unix.Open(psPath, O_PATH, 0); args := append([]string{psPath}, psArgs...)
ExecOpenPs ==
    /\ pc = "OpenPs"
    /\ \/ /\ ExecReturn(NilRows, <<"open ps: permission denied">>)
          /\ UNCHANGED <<fds, deferStack, args>>
       \/ /\ fds' = Append(fds, OpenedFd("ps", <<"/", "ps">>))
          /\ deferStack' = Append(deferStack, Len(fds) + 1)
          /\ args' = <<FdPath(Len(fds) + 1)>> \o Last(execCalls)
          /\ pc' = "Ldd"
          /\ UNCHANGED execRet
    /\ UNCHANGED <<lddOut, lddIdx, preload, linkerPath>>
    /\ UNCHANGED <<topVars, readerVars, nsVars, threadVars, childVars>>

\* execPS giving up when ldd failed.
LddFailedReturns(err) == ExecReturn(NilRows, err)

\* if err == nil { ... } has no else: when ldd failed execPS goes on to the
\* goroutine with the args of line 155.
LddFailed(err) == pc' = "Go" /\ UNCHANGED execRet

\* output, err := exec.Command("ldd", psPath).Output()
ExecLdd ==
    /\ pc = "Ldd"
    /\ lddCalls' = Append(lddCalls, <<args[1]>>)
    /\ IF hostLdd.err # NoErr
       THEN lddErr' = hostLdd.err /\ LddFailed(hostLdd.err) /\ UNCHANGED lddOut
       ELSE lddOut' = hostLdd.out /\ pc' = "LddLine" /\ UNCHANGED <<lddErr, execRet>>
    /\ UNCHANGED <<fds, deferStack, args, lddIdx, preload, linkerPath>>
    /\ UNCHANGED <<child, childWritten, childExit, launches, hostLdd, openFailed, runCalls>>
    /\ UNCHANGED <<topVars, readerVars, nsVars, threadVars>>

\* The turn opening a shared library without deferring its close.
LddTurnNoDefer(fields) ==
    IF Len(fields) > 3
    THEN /\ \/ /\ fds' = Append(fds, OpenedFd("lib", fields[3]))
               /\ preload' = Append(preload, FdPath(Len(fds) + 1))
               /\ UNCHANGED <<deferStack, openFailed>>
            \/ /\ openFailed' = openFailed \cup {fields[3]}
               /\ UNCHANGED <<fds, deferStack, preload>>
         /\ lddIdx' = lddIdx + 1
         /\ UNCHANGED <<linkerPath, execRet, pc>>
    ELSE IF Len(fields) = 2 /\ IsAbs(fields[1])
    THEN \/ /\ ExecReturn(NilRows, <<"open linker: no such file or directory">>)
            /\ openFailed' = openFailed \cup {fields[1]}
            /\ UNCHANGED <<fds, deferStack, preload, linkerPath, lddIdx>>
         \/ /\ fds' = Append(fds, OpenedFd("linker", fields[1]))
            /\ deferStack' = Append(deferStack, Len(fds) + 1)
            /\ linkerPath' = FdPath(Len(fds) + 1)
            /\ lddIdx' = lddIdx + 1
            /\ UNCHANGED <<preload, execRet, pc, openFailed>>
    ELSE /\ lddIdx' = lddIdx + 1
         /\ UNCHANGED <<fds, deferStack, preload, linkerPath, execRet, pc, openFailed>>

\* The turn treating the linker like a library: when it cannot be opened the
\* loop goes on without it.
LddTurnLinkerFailureIgnored(fields) ==
    IF Len(fields) > 3
    THEN /\ \/ /\ fds' = Append(fds, OpenedFd("lib", fields[3]))
               /\ deferStack' = Append(deferStack, Len(fds) + 1)
               /\ preload' = Append(preload, FdPath(Len(fds) + 1))
               /\ UNCHANGED openFailed
            \/ /\ openFailed' = openFailed \cup {fields[3]}
               /\ UNCHANGED <<fds, deferStack, preload>>
         /\ lddIdx' = lddIdx + 1
         /\ UNCHANGED <<linkerPath, execRet, pc>>
    ELSE IF Len(fields) = 2 /\ IsAbs(fields[1])
    THEN /\ \/ /\ openFailed' = openFailed \cup {fields[1]}
               /\ UNCHANGED <<fds, deferStack, linkerPath>>
            \/ /\ fds' = Append(fds, OpenedFd("linker", fields[1]))
               /\ deferStack' = Append(deferStack, Len(fds) + 1)
               /\ linkerPath' = FdPath(Len(fds) + 1)
               /\ UNCHANGED openFailed
         /\ lddIdx' = lddIdx + 1
         /\ UNCHANGED <<preload, execRet, pc>>
    ELSE /\ lddIdx' = lddIdx + 1
         /\ UNCHANGED <<fds, deferStack, preload, linkerPath, execRet, pc, openFailed>>

\* One turn of the loop over the lines of ldd.
LddTurn(fields) ==
    IF Len(fields) > 3
    THEN /\ \/ /\ fds' = Append(fds, OpenedFd("lib", fields[3]))
               /\ deferStack' = Append(deferStack, Len(fds) + 1)
               /\ preload' = Append(preload, FdPath(Len(fds) + 1))
               /\ UNCHANGED openFailed
            \/ /\ openFailed' = openFailed \cup {fields[3]}
               /\ UNCHANGED <<fds, deferStack, preload>>
         /\ lddIdx' = lddIdx + 1
         /\ UNCHANGED <<linkerPath, execRet, pc>>
    ELSE IF Len(fields) = 2 /\ IsAbs(fields[1])
    THEN \/ /\ ExecReturn(NilRows, <<"open linker: no such file or directory">>)
            /\ openFailed' = openFailed \cup {fields[1]}
            /\ UNCHANGED <<fds, deferStack, preload, linkerPath, lddIdx>>
         \/ /\ fds' = Append(fds, OpenedFd("linker", fields[1]))
            /\ deferStack' = Append(deferStack, Len(fds) + 1)
            /\ linkerPath' = FdPath(Len(fds) + 1)
            /\ lddIdx' = lddIdx + 1
            /\ UNCHANGED <<preload, execRet, pc, openFailed>>
    ELSE /\ lddIdx' = lddIdx + 1
         /\ UNCHANGED <<fds, deferStack, preload, linkerPath, execRet, pc, openFailed>>

ExecLddLine ==
    /\ pc = "LddLine"
    /\ lddIdx <= Len(lddOut)
    /\ LddTurn(lddOut[lddIdx])
    /\ UNCHANGED <<args, lddOut>>
    /\ UNCHANGED <<child, childWritten, childExit, launches, lddCalls, hostLdd, lddErr, runCalls>>
    /\ UNCHANGED <<topVars, readerVars, nsVars, threadVars>>

\* The preload argument naming only the library opened last.
LinkerArgsLastLib(linker, libs, rest) ==
    <<linker, <<"--argv0">>, <<"ps">>, <<"--preload">>,
      IF libs = <<>> THEN <<>> ELSE Last(libs)>> \o rest

\* args = append([]string{linkerPath, "--argv0", "ps", "--preload", Join(preload, " ")}, args...)
LinkerArgs(linker, libs, rest) ==
    <<linker, <<"--argv0">>, <<"ps">>, <<"--preload">>, StringsJoin(libs, <<" ">>)>> \o rest

ExecLinkerArgs ==
    /\ pc = "LddLine"
    /\ lddIdx > Len(lddOut)
    /\ args' = LinkerArgs(linkerPath, preload, args)
    /\ pc' = "Go"
    /\ UNCHANGED <<fds, deferStack, lddOut, lddIdx, preload, linkerPath, execRet>>
    /\ UNCHANGED <<topVars, readerVars, nsVars, threadVars, childVars>>

\* errChan := make(chan error); go func() {...}(); the caller blocks in
\* err = <-errChan and leaves its thread.
ExecGo ==
    /\ pc = "Go"
    /\ errChan' = [state |-> "open", sends |-> 0]
    /\ nsPc' = "lock"
    /\ pc' = "Recv"
    /\ callerThread' = 0
    /\ UNCHANGED <<nsErr, nsThread, nsFDs, nsLog, threadState, threadNs>>
    /\ UNCHANGED <<topVars, execVars, readerVars, childVars>>

\* The threads the scheduler may run a goroutine on.
PoolThreads == {t \in Threads : threadState[t] = "pool"}

\* err = <-errChan meets errChan <- err; return stdout, err reads the
\* slice the reader appends to.
ExecRecv ==
    /\ pc = "Recv"
    /\ nsPc = "send"
    /\ errChan.state = "open"
    /\ errChan' = [errChan EXCEPT !.sends = @ + 1]
    /\ nsPc' = "return"
    /\ \E t \in PoolThreads : callerThread' = t
    /\ ExecReturn(stdout, nsErr)
    /\ UNCHANGED <<nsErr, nsThread, nsFDs, nsLog, threadState, threadNs>>
    /\ UNCHANGED <<fds, deferStack, args, lddOut, lddIdx, preload, linkerPath>>
    /\ UNCHANGED <<topVars, readerVars, childVars>>

RECURSIVE CloseAll(_, _)
CloseAll(table, idxs) ==
    IF Len(idxs) = 0 THEN table ELSE CloseAll(CloseFd(table, Head(idxs)), Tail(idxs))

\* execPS returns: its deferred closes run, every one of them.
ExecDeferred ==
    /\ pc = "ExecDefer"
    /\ deferStack # <<>>
    /\ fds' = CloseAll(fds, deferStack)
    /\ deferStack' = <<>>
    /\ UNCHANGED <<pc, args, lddOut, lddIdx, preload, linkerPath, execRet>>
    /\ UNCHANGED <<topVars, readerVars, nsVars, threadVars, childVars>>

(***************************************************************************)
(* The reader goroutine: for scanner.Scan() { stdout = append(...) }       *)
(***************************************************************************)
WriteEndOpen == IsOpen("wPipe") \/ child = "running"

ReaderScan ==
    /\ reader = "running"
    /\ IF ~IsOpen("rPipe")
       THEN reader' = "closed" /\ UNCHANGED <<stdout, pipeBuf>>
       ELSE IF pipeBuf # <<>>
       THEN /\ stdout' = Append(stdout, Head(pipeBuf))
            /\ pipeBuf' = Tail(pipeBuf)
            /\ UNCHANGED reader
       ELSE /\ ~WriteEndOpen
            /\ reader' = "eof"
            /\ UNCHANGED <<stdout, pipeBuf>>
    /\ UNCHANGED <<pc, topVars, execVars, nsVars, threadVars, childVars>>

(***************************************************************************)
(* The namespace-join-and-exec goroutine                                   *)
(***************************************************************************)
\* The goroutine returning without sending its error.
NsFailNoSend(err) ==
    /\ nsErr' = err
    /\ nsPc' = "return"

\* errChan <- err; return
NsFail(err) ==
    /\ nsErr' = err
    /\ nsPc' = "send"

\* The log of the goroutine's steps: the step, the thread it ran on, whether
\* that thread was locked to the goroutine, and whether the step succeeded.
NsLogged(op, ok) ==
    Append(nsLog, [op |-> op, thread |-> nsThread,
                   locked |-> threadState[nsThread] = "locked", ok |-> ok])

\* The thread a new goroutine starts on: one of the pool that is not running
\* the caller.  Threads are interchangeable, the least such index names it.
FreeThreads == {t \in Threads : threadState[t] = "pool" /\ t # callerThread}
StartThread == CHOOSE t \in FreeThreads : \A u \in FreeThreads : t <= u

\* runtime.LockOSThread(): the goroutine keeps the thread it runs on.
NsLockOSThread ==
    /\ nsPc = "lock"
    /\ FreeThreads # {}
    /\ nsThread' = StartThread
    /\ threadState' = [threadState EXCEPT ![StartThread] = "locked"]
    /\ nsPc' = "openMnt"
    /\ UNCHANGED <<nsErr, nsFDs, nsLog, errChan, threadNs, callerThread>>
    /\ UNCHANGED <<pc, topVars, execVars, readerVars, childVars>>

\* mntFD, err := os.Open("/proc/<pid>/ns/mnt")
NsOpenMnt ==
    /\ nsPc = "openMnt"
    /\ \/ /\ NsFail(<<"open /proc/pid/ns/mnt: no such file or directory">>)
          /\ nsLog' = NsLogged("openMnt", FALSE)
          /\ UNCHANGED <<fds, nsFDs>>
       \/ /\ fds' = Append(fds, OpenedFd("nsMnt", <<"/proc/pid/ns/mnt">>))
          /\ nsFDs' = Append(nsFDs, Len(fds) + 1)
          /\ nsLog' = NsLogged("openMnt", TRUE)
          /\ nsPc' = "openPid"
          /\ UNCHANGED nsErr
    /\ UNCHANGED <<nsThread, errChan, threadVars>>
    /\ UNCHANGED <<deferStack, args, lddOut, lddIdx, preload, linkerPath, execRet>>
    /\ UNCHANGED <<pc, topVars, readerVars, childVars>>

\* pidFD, err := os.Open("/proc/<pid>/ns/pid")
NsOpenPid ==
    /\ nsPc = "openPid"
    /\ \/ /\ NsFail(<<"open /proc/pid/ns/pid: no such file or directory">>)
          /\ nsLog' = NsLogged("openPid", FALSE)
          /\ UNCHANGED <<fds, nsFDs>>
       \/ /\ fds' = Append(fds, OpenedFd("nsPid", <<"/proc/pid/ns/pid">>))
          /\ nsFDs' = Append(nsFDs, Len(fds) + 1)
          /\ nsLog' = NsLogged("openPid", TRUE)
          /\ nsPc' = "unshare"
          /\ UNCHANGED nsErr
    /\ UNCHANGED <<nsThread, errChan, threadVars>>
    /\ UNCHANGED <<deferStack, args, lddOut, lddIdx, preload, linkerPath, execRet>>
    /\ UNCHANGED <<pc, topVars, readerVars, childVars>>

\* The goroutine going on to setns although unshare failed.
NsUnshareErrorIgnored ==
    /\ nsPc = "unshare"
    /\ \/ /\ nsLog' = NsLogged("unshare", FALSE)
          /\ UNCHANGED threadNs
       \/ /\ threadNs' = [threadNs EXCEPT ![nsThread].mnt = "private"]
          /\ nsLog' = NsLogged("unshare", TRUE)
    /\ nsPc' = "setnsMnt"
    /\ UNCHANGED <<nsErr, nsThread, nsFDs, errChan, threadState, callerThread>>
    /\ UNCHANGED <<pc, topVars, execVars, readerVars, childVars>>

\* unix.Unshare(CLONE_NEWNS): the calling thread gets a mount namespace of its own.
NsUnshare ==
    /\ nsPc = "unshare"
    /\ \/ /\ NsFail(Wrap("unshare NEWNS", <<"operation not permitted">>))
          /\ nsLog' = NsLogged("unshare", FALSE)
          /\ UNCHANGED threadNs
       \/ /\ threadNs' = [threadNs EXCEPT ![nsThread].mnt = "private"]
          /\ nsLog' = NsLogged("unshare", TRUE)
          /\ nsPc' = "setnsMnt"
          /\ UNCHANGED nsErr
    /\ UNCHANGED <<nsThread, nsFDs, errChan, threadState, callerThread>>
    /\ UNCHANGED <<pc, topVars, execVars, readerVars, childVars>>

\* unix.Setns(mntFD, CLONE_NEWNS)
NsSetnsMnt ==
    /\ nsPc = "setnsMnt"
    /\ \/ /\ NsFail(Wrap("setns NEWNS", <<"operation not permitted">>))
          /\ nsLog' = NsLogged("setnsMnt", FALSE)
          /\ UNCHANGED threadNs
       \/ /\ threadNs' = [threadNs EXCEPT ![nsThread].mnt = "container"]
          /\ nsLog' = NsLogged("setnsMnt", TRUE)
          /\ nsPc' = "setnsPid"
          /\ UNCHANGED nsErr
    /\ UNCHANGED <<nsThread, nsFDs, errChan, threadState, callerThread>>
    /\ UNCHANGED <<pc, topVars, execVars, readerVars, childVars>>

\* unix.Setns(pidFD, CLONE_NEWPID): the children of the thread are born in
\* the container's pid namespace.
NsSetnsPid ==
    /\ nsPc = "setnsPid"
    /\ \/ /\ NsFail(Wrap("setns NEWPID", <<"operation not permitted">>))
          /\ nsLog' = NsLogged("setnsPid", FALSE)
          /\ UNCHANGED threadNs
       \/ /\ threadNs' = [threadNs EXCEPT ![nsThread].pid = "container"]
          /\ nsLog' = NsLogged("setnsPid", TRUE)
          /\ nsPc' = "run"
          /\ UNCHANGED nsErr
    /\ UNCHANGED <<nsThread, nsFDs, errChan, threadState, callerThread>>
    /\ UNCHANGED <<pc, topVars, execVars, readerVars, childVars>>

\* path := args[0]; args[0] = "ps"; cmd.Run() starts the child, or fails to.
NsRun ==
    /\ nsPc = "run"
    /\ args' = [args EXCEPT ![1] = <<"ps">>]
    /\ runCalls' = Append(runCalls, [path |-> args[1], argv |-> args'])
    /\ \/ /\ NsFail(Wrap("could not execute ps in the container", <<"fork/exec: no such file or directory">>))
          /\ nsLog' = NsLogged("exec", FALSE)
          /\ UNCHANGED <<child, launches>>
       \/ /\ args[1] # <<>>
          /\ child' = "running"
          /\ launches' = Append(launches, [path |-> args[1], argv |-> args',
                                           thread |-> nsThread, ns |-> threadNs[nsThread]])
          /\ nsLog' = NsLogged("exec", TRUE)
          /\ nsPc' = "wait"
          /\ UNCHANGED nsErr
    /\ UNCHANGED <<childWritten, childExit, lddCalls, hostLdd, lddErr, openFailed>>
    /\ UNCHANGED <<nsThread, nsFDs, errChan, threadVars>>
    /\ UNCHANGED <<fds, deferStack, lddOut, lddIdx, preload, linkerPath, execRet>>
    /\ UNCHANGED <<pc, topVars, readerVars>>

\* The child writes a line to its standard output, the write end of the pipe.
ChildWrite ==
    /\ child = "running"
    /\ Len(childWritten) < MaxOut
    /\ Len(pipeBuf) < PipeCap
    /\ \E line \in ChildLines(descriptors, Len(childWritten) + 1) :
          /\ pipeBuf' = Append(pipeBuf, line)
          /\ childWritten' = Append(childWritten, line)
    /\ UNCHANGED <<child, childExit, launches, lddCalls, hostLdd, lddErr, openFailed, runCalls>>
    /\ UNCHANGED <<stdout, reader>>
    /\ UNCHANGED <<pc, topVars, execVars, nsVars, threadVars>>

\* The child exits.
ChildExit ==
    /\ child = "running"
    /\ \E code \in ExitCodes, text \in ChildStderr :
          childExit' = [code |-> code, stderr |-> text]
    /\ child' = "exited"
    /\ UNCHANGED <<childWritten, launches, lddCalls, hostLdd, lddErr, openFailed, runCalls>>
    /\ UNCHANGED <<pc, topVars, execVars, readerVars, nsVars, threadVars>>

\* The classification that never looks at the captured stderr.
RunErrorNoStderrTest(code, errBuf) ==
    IF code = 0 THEN NoErr
    ELSE <<"ps failed with exit code", ToString(code)>> \o errBuf

\* The error execPS's goroutine makes of what cmd.Run returned.
RunError(code, errBuf) ==
    IF code = 0 THEN NoErr
    ELSE IF errBuf # <<>>
    THEN <<"ps failed with exit code", ToString(code)>> \o errBuf
    ELSE Wrap("could not execute ps in the container", <<"exit status", ToString(code)>>)

\* cmd.Run() returns when the child has exited.
NsWait ==
    /\ nsPc = "wait"
    /\ child = "exited"
    /\ NsFail(RunError(childExit.code, childExit.stderr))
    /\ UNCHANGED <<nsThread, nsFDs, nsLog, errChan>>
    /\ UNCHANGED <<pc, topVars, execVars, readerVars, threadVars, childVars>>

\* The goroutine unlocking its thread before it ends: the thread goes back
\* to the pool.
ThreadAfterExitUnlocked == "pool"

\* What becomes of the locked thread when its goroutine ends: the runtime
\* ends it, since the goroutine never called UnlockOSThread.
ThreadAfterExit == "dead"

\* The goroutine returns: pidFD.Close(), mntFD.Close(), close(errChan).
NsReturn ==
    /\ nsPc = "return"
    /\ fds' = CloseAll(fds, nsFDs)
    /\ nsFDs' = <<>>
    /\ errChan' = [errChan EXCEPT !.state = "closed"]
    /\ threadState' = [threadState EXCEPT ![nsThread] = ThreadAfterExit]
    /\ nsPc' = "exited"
    /\ UNCHANGED <<nsErr, nsThread, nsLog, threadNs, callerThread>>
    /\ UNCHANGED <<deferStack, args, lddOut, lddIdx, preload, linkerPath, execRet>>
    /\ UNCHANGED <<pc, topVars, readerVars, childVars>>

\* The scheduler moves the caller's goroutine to another thread of the pool.
Resched ==
    /\ pc # "Done"
    /\ callerThread # 0
    /\ \E t \in PoolThreads \ {callerThread} : callerThread' = t
    /\ UNCHANGED <<threadState, threadNs>>
    /\ UNCHANGED <<pc, topVars, execVars, readerVars, nsVars, childVars>>

Next ==
    \/ TopNoCgroups \/ TopState \/ TopPsgo \/ TopShlex \/ TopCallExecPS
    \/ TopExecPSReturned
    \/ ExecPipe \/ ExecLookPath \/ ExecOpenPs \/ ExecLdd \/ ExecLddLine \/ ExecLinkerArgs
    \/ ExecGo \/ ExecRecv \/ ExecDeferred
    \/ ReaderScan
    \/ NsLockOSThread \/ NsOpenMnt \/ NsOpenPid \/ NsUnshare \/ NsSetnsMnt \/ NsSetnsPid
    \/ NsRun \/ NsWait \/ NsReturn
    \/ ChildWrite \/ ChildExit
    \/ Resched

Spec == Init /\ [][Next]_vars

\* The three goroutines as the Go scheduler runs them: a goroutine that can
\* take a step is not held up for ever.  Nothing makes the child exit.
CallerSteps ==
    \/ TopNoCgroups \/ TopState \/ TopPsgo \/ TopShlex \/ TopCallExecPS
    \/ TopExecPSReturned
    \/ ExecPipe \/ ExecLookPath \/ ExecOpenPs \/ ExecLdd \/ ExecLddLine \/ ExecLinkerArgs
    \/ ExecGo \/ ExecRecv \/ ExecDeferred
NsSteps ==
    \/ NsLockOSThread \/ NsOpenMnt \/ NsOpenPid \/ NsUnshare \/ NsSetnsMnt \/ NsSetnsPid
    \/ NsRun \/ NsWait \/ NsReturn
SpecLive ==
    /\ InitLive /\ [][Next]_vars
    /\ WF_vars(CallerSteps) /\ WF_vars(NsSteps) /\ WF_vars(ReaderScan)

\* The dispatcher alone, on every input within the bounds: Top up to the
\* call of execPS.
NextDispatch == TopNoCgroups \/ TopState \/ TopPsgo \/ TopShlex \/ TopCallExecPS
SpecDispatch == InitDispatch /\ [][NextDispatch]_vars

(***************************************************************************)
(* Properties                                                              *)
(***************************************************************************)
\* Top has returned, or has called execPS.
Decided == pc \notin {"Top", "State", "Psgo", "Shlex"}
\* execPS was called and has returned, its deferred calls run.
ExecPSReturned ==
    /\ execCalls # <<>>
    /\ pc = "Done" \/ (pc = "ExecDefer" /\ deferStack = <<>>)
\* strings.Join(descriptors, " ")
Cmd == StringsJoin(descriptors, <<" ">>)
\* Nothing of execPS has happened: no pipe and reader, no descriptor opened,
\* no ldd, no step of the namespace goroutine, no child, no thread changed.
NoFallbackEffect ==
    /\ execCalls = <<>>
    /\ reader = "none"
    /\ fds = <<>>
    /\ lddCalls = <<>>
    /\ nsPc = "none"
    /\ nsLog = <<>>
    /\ launches = <<>>
    /\ \A t \in Threads : threadNs[t] = HostNs /\ threadState[t] = "pool"

\* C1: a container created with NoCgroups: whatever the descriptors, Top looks
\* up no state, calls no provider, and nothing of execPS happens; once past its
\* first step Top has returned no rows and an error that is ErrNoCgroups.
C1_NoCgroupsFirst ==
    noCgroups =>
        /\ stateLookups = <<>>
        /\ psgoCalls = <<>>
        /\ NoFallbackEffect
        /\ pc # "Top" => /\ pc = "Done"
                         /\ topRet.rows = NilRows
                         /\ ErrorsIs(topRet.err, ErrNoCgroups)

C1_Witness ==
    /\ noCgroups
    /\ pc = "Done"
    /\ descriptors # <<>>
    /\ conState = ContainerStateRunning

\* C2 as claimed: whenever the container is not running, Top returns the
\* not-running error, whatever else holds of the container.
C2_Original ==
    (pc = "Done" /\ conState # ContainerStateRunning) =>
        /\ topRet = [rows |-> NilRows, err |-> ErrNotRunning]
        /\ psgoCalls = <<>>
        /\ execCalls = <<>>

\* C2: a container that has a cgroup, whose state lookup succeeded and whose
\* state is not running: Top has returned no rows and the not-running error,
\* whatever the descriptors, and has called neither provider nor execPS.
C2_NotRunning ==
    (~noCgroups /\ stateLookups = <<NoErr>> /\ conState # ContainerStateRunning) =>
        /\ pc = "Done"
        /\ topRet = [rows |-> NilRows, err |-> ErrNotRunning]
        /\ psgoCalls = <<>>
        /\ NoFallbackEffect

C2_Witness ==
    /\ ~noCgroups
    /\ stateLookups = <<NoErr>>
    /\ conState = "paused"
    /\ descriptors # <<>>
    /\ pc = "Done"

\* Every original descriptor shell-splits without error.
AllShlexOk == \A i \in 1..Len(descriptors) : ShlexSplit(descriptors[i]).err = NoErr
UnknownDescriptorReported == psgoCalls # <<>> /\ ErrorsIs(psgoRet.err, ErrUnknownDescriptor)
\* Any other error of the provider is what Top returned, with no rows, and
\* execPS was not called.
OtherErrorUnchanged ==
    (psgoRet.err # NoErr /\ ~ErrorsIs(psgoRet.err, ErrUnknownDescriptor)) =>
        /\ pc = "Done"
        /\ topRet = [rows |-> NilRows, err |-> psgoRet.err]
        /\ NoFallbackEffect

\* C3 as claimed: execPS is called if and only if the provider reported
\* UnknownDescriptor.
C3_Original ==
    Decided => /\ (execCalls # <<>>) <=> UnknownDescriptorReported
               /\ OtherErrorUnchanged

\* C3: execPS is called if and only if the provider reported UnknownDescriptor
\* and every original descriptor shell-splits without error; any other error
\* of the provider is returned unchanged, with no rows and no call of execPS.
C3_FallbackIff ==
    Decided => /\ (execCalls # <<>>) <=> (UnknownDescriptorReported /\ AllShlexOk)
               /\ OtherErrorUnchanged

C3_Witness ==
    /\ execCalls # <<>>
    /\ UnknownDescriptorReported
    /\ Len(descriptors) > 1

\* C4: when the provider returned rows, Top has returned exactly those rows,
\* each joined by tabs, in the provider's order and with none filtered out,
\* and nothing of execPS has happened.
C4_StructuredVerbatim ==
    (psgoCalls # <<>> /\ psgoRet.err = NoErr) =>
        /\ pc = "Done"
        /\ topRet.err = NoErr
        /\ Len(topRet.rows) = Len(psgoOut)
        /\ \A i \in 1..Len(psgoOut) : topRet.rows[i] = StringsJoin(psgoOut[i], <<"\t">>)
        /\ NoFallbackEffect

C4_Witness ==
    /\ pc = "Done"
    /\ psgoCalls # <<>>
    /\ psgoRet.err = NoErr
    /\ Len(topRet.rows) > 1
    /\ Cmd # <<>>
    /\ \E i \in 1..Len(topRet.rows) : StringsContains(topRet.rows[i], Cmd)

\* The shell words of every descriptor, in input order, the empty ones dropped.
RECURSIVE ShellWords(_)
ShellWords(descs) ==
    IF Len(descs) = 0 THEN <<>>
    ELSE NonEmpty(ShlexSplit(Head(descs)).words) \o ShellWords(Tail(descs))

\* d is one single-quoted argument: a quote, text without quotes, a quote.
IsQuotedArg(d) ==
    /\ Len(d) > 2
    /\ d[1] = "'"
    /\ d[Len(d)] = "'"
    /\ \A k \in 2..(Len(d) - 1) : d[k] # "'"

\* C5: the arguments execPS is called with are the shell words of the original
\* descriptors, in input order, without the empty ones; a descriptor that is
\* one quoted argument arrives as one token, blanks and commas included.
C5_ShellSplitArgs ==
    execCalls # <<>> =>
        /\ execCalls[1] = ShellWords(descriptors)
        /\ \A i \in 1..Len(descriptors) :
              IsQuotedArg(descriptors[i]) =>
                  \E j \in 1..Len(execCalls[1]) :
                      execCalls[1][j] = SubSeq(descriptors[i], 2, Len(descriptors[i]) - 1)

C5_Witness ==
    /\ execCalls # <<>>
    /\ Len(descriptors) > 1
    /\ execCalls[1] # psgoCalls[1]
    /\ \E i \in 1..Len(descriptors) : IsQuotedArg(descriptors[i])
    /\ \E j \in 1..Len(execCalls[1]) : StringsContains(execCalls[1][j], <<" ">>)

\* C6 as claimed: the output is complete when it is handed back: the lines
\* execPS returns, once it has received the result of the goroutine, are all
\* the lines the child wrote to its standard output.
C6_OutputComplete ==
    (pc \in {"ExecDefer", "Done"} /\ errChan.sends > 0) => execRet.lines = childWritten

\* The descriptors execPS opens itself: the borrowed host files and the pipe.
HostFdKinds == {"ps", "linker", "lib", "rPipe", "wPipe"}

\* C7: once execPS has returned, on whichever path, the descriptors it opened
\* for the ps binary, the linker and the libraries, and both ends of the pipe,
\* are closed.
C7_FdsReleased ==
    ExecPSReturned =>
        \A i \in DOMAIN fds : fds[i].kind \in HostFdKinds => ~fds[i].open

C7_Witness ==
    /\ ExecPSReturned
    /\ pc = "Done"
    /\ launches # <<>>
    /\ execRet.err # NoErr
    /\ \E i \in DOMAIN fds : fds[i].kind = "lib"
    /\ \E i \in DOMAIN fds : fds[i].kind = "linker"

NsMutations == {"unshare", "setnsMnt", "setnsPid"}

\* C8: unshare and setns run only on the goroutine's thread while it is locked;
\* a thread whose namespaces were changed is that thread and is never in the
\* pool; the thread stays locked until the goroutine ends and is then dead; the
\* caller never runs on it and runs in the host's namespaces.
C8_NsThread ==
    /\ \A i \in DOMAIN nsLog :
          nsLog[i].op \in NsMutations =>
              nsLog[i].thread # 0 /\ nsLog[i].thread = nsThread /\ nsLog[i].locked
    /\ \A t \in Threads :
          threadNs[t] # HostNs => t = nsThread /\ threadState[t] # "pool"
    /\ nsThread # 0 =>
          threadState[nsThread] = IF nsPc = "exited" THEN "dead" ELSE "locked"
    /\ callerThread # 0 =>
          callerThread # nsThread /\ threadNs[callerThread] = HostNs

C8_Witness ==
    /\ pc = "Done"
    /\ nsPc = "exited"
    /\ callerThread # 0
    /\ topRet.err = NoErr
    /\ threadNs[nsThread] = [mnt |-> "container", pid |-> "container"]

\* C9: Top never returns rows together with an error.
C9_RowsOrError == topRet.err # NoErr => topRet.rows = NilRows

C9_Witness ==
    /\ pc = "Done"
    /\ topRet.err # NoErr
    /\ execRet.lines # <<>>

\* C10: when the fallback succeeded, no returned line contains the descriptors
\* joined by blanks, and the returned lines are the lines execPS handed back
\* without those that contain it, in their order.
C10_EchoFiltered ==
    (pc = "Done" /\ execCalls # <<>> /\ topRet.err = NoErr) =>
        /\ \A i \in 1..Len(topRet.rows) : ~StringsContains(topRet.rows[i], Cmd)
        /\ topRet.rows = SelectSeq(execRet.lines, LAMBDA l : ~StringsContains(l, Cmd))

C10_Witness ==
    /\ pc = "Done"
    /\ execCalls # <<>>
    /\ topRet.err = NoErr
    /\ Cmd # <<>>
    /\ Len(execRet.lines) > 1
    /\ Len(topRet.rows) = 1
    /\ execRet.lines[1] # topRet.rows[1]

\* The alias of the descriptor execPS opened for the ps binary.
PsFdPaths == {FdPath(i) : i \in {j \in DOMAIN fds : fds[j].kind = "ps"}}

\* C11: when ldd failed, execPS goes on to the goroutine instead of returning:
\* what it returns is what the goroutine sent; no linker and no library was
\* opened; and every command handed to cmd.Run has the alias of the ps
\* descriptor as its path and "ps" followed by the caller's tokens as its
\* arguments, with no linker, --argv0 or --preload argument.
C11_LddFailureGoesOn ==
    lddErr # NoErr =>
        /\ pc \in {"Go", "Recv", "ExecDefer", "Done"}
        /\ pc # "Go" => nsPc # "none"
        /\ pc \in {"ExecDefer", "Done"} => errChan.sends = 1 /\ execRet.err = nsErr
        /\ linkerPath = <<>> /\ preload = <<>>
        /\ ~\E i \in DOMAIN fds : fds[i].kind \in {"linker", "lib"}
        /\ \A i \in DOMAIN runCalls :
              /\ runCalls[i].path \in PsFdPaths
              /\ runCalls[i].argv = << <<"ps">> >> \o execCalls[1]
        /\ \A i \in DOMAIN launches :
              /\ launches[i].path \in PsFdPaths
              /\ launches[i].argv = << <<"ps">> >> \o execCalls[1]
              /\ launches[i].ns = [mnt |-> "container", pid |-> "container"]

C11_Witness ==
    /\ lddErr # NoErr
    /\ pc = "Done"
    /\ topRet.err = NoErr
    /\ launches # <<>>
    /\ Len(execCalls[1]) > 1

\* The library paths among the first n lines of ldd, in the order reported.
RECURSIVE LibsReported(_)
LibsReported(n) ==
    IF n = 0 THEN <<>>
    ELSE LibsReported(n - 1) \o (IF Len(lddOut[n]) > 3 THEN <<lddOut[n][3]>> ELSE <<>>)
\* The descriptors of libraries, in the order they were opened.
RECURSIVE LibFdsUpTo(_)
LibFdsUpTo(n) ==
    IF n = 0 THEN <<>>
    ELSE LibFdsUpTo(n - 1) \o (IF fds[n].kind = "lib" THEN <<n>> ELSE <<>>)
LibFds == LibFdsUpTo(Len(fds))
\* ldd succeeded and the loop over its lines has run to its end.
LinkageParsed ==
    /\ lddCalls # <<>>
    /\ lddErr = NoErr
    /\ pc \in {"Go", "Recv"} \/ (pc \in {"ExecDefer", "Done"} /\ errChan.sends = 1)
\* The lines of ldd the loop has dealt with.
LinesDone == IF pc = "LddLine" THEN lddIdx - 1 ELSE Len(lddOut)

\* C12: the libraries opened are the reported libraries whose open did not
\* fail, in the order reported, one descriptor each; preload holds the alias
\* of each of these descriptors once, in that order; and once the lines are
\* all dealt with, the argument after --preload is these aliases joined by
\* blanks.
C12_PreloadInOrder ==
    (lddCalls # <<>> /\ lddErr = NoErr /\ pc # "Ldd" /\ (pc = "LddLine" \/ LinkageParsed)) =>
        LET openable == SelectSeq(LibsReported(LinesDone), LAMBDA p : p \notin openFailed)
        IN  /\ Len(LibFds) = Len(openable)
            /\ \A k \in 1..Len(LibFds) : fds[LibFds[k]].path = openable[k]
            /\ preload = [k \in 1..Len(LibFds) |-> FdPath(LibFds[k])]
            /\ \A k, l \in 1..Len(preload) : preload[k] = preload[l] => k = l
            /\ LinkageParsed =>
                  /\ args[4] = <<"--preload">>
                  /\ args[5] = StringsJoin(preload, <<" ">>)

C12_Witness ==
    /\ LinkageParsed
    /\ pc = "Done"
    /\ Len(preload) = 2
    /\ launches = <<>>

\* A library whose open failed is left out, the one after it is preloaded.
C12_WitnessSkipped ==
    /\ LinkageParsed
    /\ openFailed = {LibFile(1)}
    /\ Len(preload) = 1

ErrCouldNotExecute == "could not execute ps in the container"
ErrPsFailed == "ps failed with exit code"
\* cmd.Run was called and has returned.
RunReturned == runCalls # <<>> /\ nsPc \in {"send", "return", "exited"}
\* No chunk of err is text a child can write to its standard error.
NoStderrText(err) == \A i \in 1..Len(err) : <<err[i]>> \notin ChildStderr

\* C13: once cmd.Run has returned, the goroutine's error is: for a child that
\* exited non-zero with text on stderr, the ps-failed error with the exit code
\* and that text; for a child that exited non-zero with nothing on stderr, or
\* a child that could not be started, the could-not-execute error wrapping a
\* cause, with no stderr text in it; for a child that exited zero, nil.  It is
\* the error execPS returns.
C13_ChildResult ==
    RunReturned =>
        /\ (launches # <<>> /\ childExit.code # 0 /\ childExit.stderr # <<>>) =>
              /\ nsErr[1] = ErrPsFailed
              /\ nsErr[2] = ToString(childExit.code)
              /\ SubSeq(nsErr, 3, Len(nsErr)) = childExit.stderr
        /\ (launches # <<>> /\ childExit.code # 0 /\ childExit.stderr = <<>>) =>
              /\ nsErr[1] = ErrCouldNotExecute
              /\ SubSeq(nsErr, 2, Len(nsErr)) = <<"exit status", ToString(childExit.code)>>
        /\ launches = <<>> =>
              /\ nsErr[1] = ErrCouldNotExecute
              /\ Len(nsErr) > 1
              /\ NoStderrText(nsErr)
        /\ (launches # <<>> /\ childExit.code = 0) => nsErr = NoErr
        /\ pc \in {"ExecDefer", "Done"} => execRet.err = nsErr

C13_Witness ==
    /\ RunReturned
    /\ pc = "Done"
    /\ launches # <<>>
    /\ childExit.code # 0
    /\ childExit.stderr # <<>>
    /\ execRet.lines # <<>>

\* A child that exits non-zero without a word, and one that exits zero with
\* text on stderr.
C13_WitnessSilent ==
    /\ RunReturned /\ launches # <<>> /\ childExit.code # 0 /\ childExit.stderr = <<>>
C13_WitnessZero ==
    /\ RunReturned /\ launches # <<>> /\ childExit.code = 0 /\ childExit.stderr # <<>>
C13_WitnessNoLaunch ==
    /\ RunReturned /\ launches = <<>> /\ pc = "Done"

\* toks without the tokens that occurred before in it.
RECURSIVE Dedup(_)
Dedup(toks) ==
    IF Len(toks) = 0 THEN <<>>
    ELSE LET front == Dedup(SubSeq(toks, 1, Len(toks) - 1))
         IN  IF \E i \in 1..(Len(toks) - 1) : toks[i] = Last(toks)
             THEN front ELSE Append(front, Last(toks))
\* The pieces between the commas of all the descriptors: those of the
\* descriptors written one after the other with commas between them.
CommaPieces == StringsSplit(StringsJoin(descriptors, <<",">>), ",")

\* C14 as claimed: the list handed to the provider is the comma pieces of the
\* descriptors, in input order, without the empty ones and without duplicates.
C14_Original ==
    psgoCalls # <<>> => psgoCalls[1] = Dedup(NonEmpty(CommaPieces))

\* C14: the list handed to the provider is the comma pieces of the
\* descriptors, in input order, without the empty ones; a piece that occurs
\* several times is handed over as often as it occurs.  No token of the list
\* is empty or contains a comma.
C14_CommaSplit ==
    psgoCalls # <<>> =>
        /\ psgoCalls[1] = NonEmpty(CommaPieces)
        /\ \A i \in 1..Len(psgoCalls[1]) :
              psgoCalls[1][i] # <<>> /\ ~StringsContains(psgoCalls[1][i], <<",">>)

C14_Witness ==
    /\ psgoCalls # <<>>
    /\ Len(descriptors) = 2
    /\ Len(psgoCalls[1]) = 2
    /\ psgoCalls[1][1] = psgoCalls[1][2]
    /\ Len(NonEmpty(CommaPieces)) < Len(CommaPieces)

\* The steps of the goroutine in the order of the code, and what the error of
\* each names: the path that could not be opened, or the call that failed.
StepOrder == <<"openMnt", "openPid", "unshare", "setnsMnt", "setnsPid", "exec">>
StepErrorText ==
    [openMnt |-> "open /proc/pid/ns/mnt: no such file or directory",
     openPid |-> "open /proc/pid/ns/pid: no such file or directory",
     unshare |-> "unshare NEWNS",
     setnsMnt |-> "setns NEWNS",
     setnsPid |-> "setns NEWPID",
     exec |-> "could not execute ps in the container"]
ContainerNs == [mnt |-> "container", pid |-> "container"]

\* C15: the steps of the goroutine run in the order open mnt handle, open pid
\* handle, unshare, setns mnt, setns pid, cmd.Run, each on the locked thread
\* and only after every step before it succeeded; cmd.Run is called, and a
\* child exists, only after the five steps; after a failed step no child
\* exists and the error of the goroutine, which execPS returns, names that step.
C15_StepsInOrder ==
    /\ Len(nsLog) <= Len(StepOrder)
    /\ \A i \in DOMAIN nsLog :
          /\ nsLog[i].op = StepOrder[i]
          /\ nsLog[i].thread = nsThread /\ nsLog[i].locked
          /\ i < Len(nsLog) => nsLog[i].ok
    /\ (runCalls # <<>> \/ launches # <<>> \/ child # "none") =>
          /\ Len(nsLog) = Len(StepOrder)
          /\ threadNs[nsThread] = ContainerNs
    /\ \A i \in DOMAIN launches : launches[i].ns = ContainerNs /\ launches[i].thread = nsThread
    /\ (nsLog # <<>> /\ ~Last(nsLog).ok) =>
          /\ nsPc \in {"send", "return", "exited"}
          /\ launches = <<>> /\ child = "none"
          /\ nsErr # NoErr /\ nsErr[1] = StepErrorText[Last(nsLog).op]
          /\ pc \in {"ExecDefer", "Done"} => execRet.err = nsErr
          /\ pc = "Done" => topRet.rows = NilRows /\ SubSeq(topRet.err, 2, Len(topRet.err)) = nsErr

C15_Witness ==
    /\ pc = "Done"
    /\ Len(nsLog) = 4
    /\ ~Last(nsLog).ok
    /\ threadNs[nsThread] = [mnt |-> "private", pid |-> "host"]

\* The aliases of the descriptors of one kind that are open.
OpenAliases(kinds) == {FdPath(i) : i \in {j \in DOMAIN fds : fds[j].kind \in kinds /\ fds[j].open}}
\* The step in which the goroutine calls cmd.Run.
RunStep == nsPc = "run" /\ nsPc' # "run"

\* C16 as claimed: whenever cmd.Run is called, the path of the command is the
\* alias of an open descriptor of a host file, every library of the preload
\* list is the alias of an open library descriptor, and when ldd succeeded
\* the path is the alias of an open descriptor of the dynamic linker.
C16_HostFdAliases ==
    [][RunStep =>
          /\ args[1] \in OpenAliases({"ps", "linker"})
          /\ \A k \in 1..Len(preload) : preload[k] \in OpenAliases({"lib"})
          /\ (lddErr = NoErr => args[1] \in OpenAliases({"linker"}))]_vars

\* What does hold of every call of cmd.Run: its path is empty or the alias of
\* an open host descriptor, and the preloaded libraries are aliases of open
\* library descriptors.
C16_AliasOrEmpty ==
    [][RunStep =>
          /\ args[1] = <<>> \/ args[1] \in OpenAliases({"ps", "linker"})
          /\ \A k \in 1..Len(preload) : preload[k] \in OpenAliases({"lib"})
          /\ (lddErr = NoErr /\ args[1] # <<>>) => args[1] \in OpenAliases({"linker"})]_vars

\* How often the goroutine took the step op.
TimesLogged(op) == Cardinality({i \in DOMAIN nsLog : nsLog[i].op = op})
\* How many descriptors of one kind were opened.
TimesOpened(kind) == Cardinality({i \in DOMAIN fds : fds[i].kind = kind})

\* C17: in one call of Top the state is looked up, the provider called, execPS
\* called, ldd run, the pipe made, ps opened, each step of the goroutine taken,
\* cmd.Run called, a child started and a result sent, at most once each; and
\* when execPS has failed Top has returned its error, wrapped, with no rows.
C17_NoRetry ==
    /\ Len(stateLookups) <= 1
    /\ Len(psgoCalls) <= 1
    /\ Len(execCalls) <= 1
    /\ Len(lddCalls) <= 1
    /\ TimesOpened("rPipe") <= 1 /\ TimesOpened("ps") <= 1
    /\ \A i \in DOMAIN StepOrder : TimesLogged(StepOrder[i]) <= 1
    /\ Len(runCalls) <= 1
    /\ Len(launches) <= 1
    /\ errChan.sends <= 1
    /\ (pc = "Done" /\ execCalls # <<>> /\ execRet.err # NoErr) =>
          topRet = [rows |-> NilRows, err |-> Wrap("executing ps(1) in the container", execRet.err)]

C17_Witness ==
    /\ pc = "Done"
    /\ execRet.err # NoErr
    /\ launches # <<>>
    /\ Len(psgoCalls) = 1
    /\ lddErr = NoErr /\ lddOut # <<>>

\* The first descriptor shlex cannot split.
FirstBad ==
    CHOOSE i \in 1..Len(descriptors) :
        /\ ShlexSplit(descriptors[i]).err # NoErr
        /\ \A j \in 1..(i - 1) : ShlexSplit(descriptors[j]).err = NoErr

\* C18: when the provider reported UnknownDescriptor and some descriptor does
\* not shell-split, Top gets no further than that descriptor: it returns no
\* rows and the parse error wrapping shlex's error for the first such
\* descriptor, and nothing of execPS happens, whether or not descriptors
\* before it were split.
C18_ParseErrorNoFallback ==
    (UnknownDescriptorReported /\ ~AllShlexOk) =>
        /\ pc \in {"Shlex", "Done"}
        /\ NoFallbackEffect
        /\ shIdx <= FirstBad
        /\ pc = "Done" =>
              /\ shIdx = FirstBad
              /\ topRet.rows = NilRows
              /\ topRet.err = <<"parsing ps args">> \o ShlexSplit(descriptors[FirstBad]).err
              /\ topRet.err[2] \in {ErrEOFQuote[1], ErrEOFEscape[1]}

C18_Witness ==
    /\ UnknownDescriptorReported
    /\ pc = "Done"
    /\ ~AllShlexOk
    /\ FirstBad = 2
    /\ psDescriptors # <<>>

ReaderEnded == reader \in {"closed", "eof"}

\* C19: a reader goroutine that is running when execPS has come to a return
\* statement (after the result of the goroutine, or early: ps not found, ps
\* or the linker not opened, a namespace step failed) ends: the deferred
\* closes of the pipe run and the reader's Scan returns false.
C19_ReaderTerminates ==
    (reader = "running" /\ pc \in {"ExecDefer", "Done"}) ~> ReaderEnded

\* The reader has ended after an early return, the child never started.
C19_Witness ==
    /\ ReaderEnded
    /\ pc = "Done"
    /\ nsPc = "none"
    /\ childWritten = <<>>
    /\ lddCalls # <<>>

\* A namespace step of the goroutine has failed.
NsStepFailed == nsLog # <<>> /\ ~Last(nsLog).ok
\* The channel carries one value at most, the goroutine has sent it before it
\* closes the channel, and execPS returns what it received.
OneValueOnChannel ==
    /\ errChan.sends <= 1
    /\ nsPc \in {"return", "exited"} => errChan.sends = 1
    /\ errChan.state = "closed" <=> nsPc = "exited"
    /\ errChan.sends = 1 <=> (nsPc # "none" /\ pc \in {"ExecDefer", "Done"})
    /\ errChan.sends = 1 => execRet.err = nsErr

\* C20: on every path of the goroutine one value is sent before the channel
\* is closed and execPS receives it; a goroutine that has come to its send
\* ends, and execPS returns once the child has exited or a step has failed.
C20_OneSendOneReceive ==
    /\ []OneValueOnChannel
    /\ (nsPc = "send") ~> (nsPc = "exited")
    /\ (child = "exited" \/ NsStepFailed) ~> ExecPSReturned

C20_Witness ==
    /\ errChan = [state |-> "closed", sends |-> 1]
    /\ pc = "Done"
    /\ child = "exited"
    /\ execRet.err # NoErr

\* The lines of ldd that name a library, and those that name the linker.
IsLibLine(i) == Len(lddOut[i]) > 3
IsLinkerLine(i) == Len(lddOut[i]) = 2 /\ IsAbs(lddOut[i][1])
\* The open of the path of line i was refused.
LibRefused(i) == i \in DOMAIN lddOut /\ IsLibLine(i) /\ i <= LinesDone /\ lddOut[i][3] \in openFailed
LinkerRefused == \E i \in DOMAIN lddOut : IsLinkerLine(i) /\ lddOut[i][1] \in openFailed
ErrOpenLinker == <<"open linker: no such file or directory">>

\* C21: a library that could not be opened has no descriptor and no alias in
\* the preload list, and the loop has gone on to the lines after it: as long
\* as the linker was not refused, execPS returns only what the goroutine
\* sent.  A linker that could not be opened ends execPS in that turn of the
\* loop: it returns no lines and the error of the open, no line after it is
\* dealt with, no goroutine, namespace step, cmd.Run or child exists, every
\* descriptor still open is one a deferred close is waiting for, and once the
\* deferred closes have run none is open.
C21_LibSkippedLinkerFatal ==
    /\ \A i \in DOMAIN lddOut :
          LibRefused(i) =>
              /\ ~\E j \in DOMAIN fds : fds[j].path = lddOut[i][3]
              /\ Len(preload) = Len(LibFds)
              /\ pc = "LddLine" => lddIdx > i
              /\ (~LinkerRefused /\ pc \in {"ExecDefer", "Done"}) =>
                    errChan.sends = 1 /\ execRet.err = nsErr
    /\ (~LinkerRefused /\ lddCalls # <<>> /\ lddErr = NoErr /\ pc \in {"ExecDefer", "Done"}) =>
          /\ lddIdx = Len(lddOut) + 1
          /\ errChan.sends = 1
    /\ LinkerRefused =>
          /\ pc \in {"ExecDefer", "Done"}
          /\ execRet = [lines |-> NilRows, err |-> ErrOpenLinker]
          /\ lddIdx <= Len(lddOut) /\ IsLinkerLine(lddIdx)
          /\ linkerPath = <<>> \/ \E i \in 1..(lddIdx - 1) : IsLinkerLine(i)
          /\ Len(LibFds) <= Len(LibsReported(lddIdx - 1))
          /\ nsPc = "none" /\ nsLog = <<>> /\ errChan.state = "none"
          /\ runCalls = <<>> /\ launches = <<>> /\ child = "none"
          /\ \A t \in Threads : threadNs[t] = HostNs /\ threadState[t] = "pool"
          /\ \A j \in DOMAIN fds :
                fds[j].open => \E k \in DOMAIN deferStack : deferStack[k] = j
          /\ ExecPSReturned => \A j \in DOMAIN fds : ~fds[j].open
          /\ pc = "Done" =>
                topRet = [rows |-> NilRows,
                          err |-> Wrap("executing ps(1) in the container", ErrOpenLinker)]

\* The linker is refused after a library was opened.
C21_Witness ==
    /\ LinkerRefused
    /\ pc = "Done"
    /\ lddIdx = 2
    /\ \E j \in DOMAIN fds : fds[j].kind = "lib"

\* A library is refused, the library after it is opened and the child runs.
C21_WitnessLibRefused ==
    /\ LibRefused(1)
    /\ ~LinkerRefused
    /\ Len(preload) = 1
    /\ launches = <<>>
    /\ runCalls # <<>>
    /\ pc = "Done"
====
